---- MODULE Spec2Model ----
(***************************************************************************)
(* Attendance recognition backend: the ClassSession gate, the recognition  *)
(* request (recognize_attendance view + process_attendance_recognition     *)
(* Celery task), the AttendanceLog store with its unique_together          *)
(* constraint, and the attendance notification fan-out.                    *)
(*                                                                         *)
(* Every database statement of a handler is one atomic step; statements of *)
(* different requests, tasks and session operations interleave freely      *)
(* (Django autocommit, several web and Celery workers).                    *)
(***************************************************************************)
EXTENDS Integers, FiniteSets, Sequences, TLC

\* ---------------------------------------------------------------- bounds
NumStudents == 2      \* students enrolled in the course of the sessions
NumSessions == 1      \* class sessions
MaxReq == 2           \* recognition requests submitted in one behaviour
MaxOps == 1           \* session operations (viewset requests) in flight at once

Students == 1..NumStudents
Sessions == 1..NumSessions
SessionIds == Sessions \cup {0}   \* 0: an id that names no ClassSession row
Reqs == 1..MaxReq
Ops == 1..MaxOps
LogIds == 1..MaxReq   \* primary keys handed out to AttendanceLog rows

None == 0             \* Python None / no row / no value

\* FACE_RECOGNITION_TOLERANCE default, in hundredths (distance 0.60)
Tolerance == 60
\* distances (in hundredths) of a captured face to its nearest gallery entry:
\* one within the tolerance, one beyond it
NearDistance == Tolerance - 20
FarDistance == Tolerance + 10

\* ------------------------------------------------------------ ClassSession
\* the two gate columns of a ClassSession row, with the model defaults
SessionDefault == [attendance_started |-> FALSE, attendance_ended |-> FALSE]
SessionRows == [attendance_started : BOOLEAN, attendance_ended : BOOLEAN]

\* the three recognition states of the data model, read off the two columns
IsPending(row) == ~row.attendance_started /\ ~row.attendance_ended
IsActive(row) == row.attendance_started /\ ~row.attendance_ended
IsClosed(row) == row.attendance_ended
SessionState(row) ==
    IF IsClosed(row) THEN "Closed" ELSE IF IsActive(row) THEN "Active" ELSE "Pending"

\* --------------------------------------------------------------- requests
\* image_data of a request: missing, undecodable, decodable without a usable
\* face, or decodable with a face whose nearest gallery entry is the given
\* student at the given distance (a near frame per student, one far frame)
Frames == {[kind |-> "missing", face |-> None, dist |-> 0],
           [kind |-> "bad", face |-> None, dist |-> 0],
           [kind |-> "noface", face |-> None, dist |-> 0],
           [kind |-> "face", face |-> 1, dist |-> FarDistance]}
          \cup [kind : {"face"}, face : Students, dist : {NearDistance}]

\* the validation replaced by one that accepts every image_data
validate_anything(frame) == TRUE

\* validate_image_format: true exactly for data that decodes to an image
validate_image_format(frame) == frame.kind \in {"noface", "face"}

\* the gate of the recognize_attendance view: two successive checks
ViewGate(row) ==
    IF ~row.attendance_started THEN "not_started"
    ELSE IF row.attendance_ended THEN "ended"
    ELSE "accepted"

\* the gate of process_attendance_recognition: one condition, one message
TaskGateRejectsStartedOnly(row) == ~row.attendance_started
TaskGateRejects(row) == ~row.attendance_started \/ row.attendance_ended

\* FaceProcessor.recognize_face: the nearest gallery entry when its distance
\* is within the tolerance, with confidence 1 - distance; None otherwise
NoResult == [student_id |-> None, confidence |-> 0]

\* the matching step replaced by one that always names the nearest student
face_match_nearest(student, dist, gallery, tolerance) ==
    [student_id |-> student, confidence |-> 100 - dist]

\* the matching step of recognize_face for a face whose nearest gallery
\* entry is student at distance dist, under the configured tolerance
face_match(student, dist, gallery, tolerance) ==
    IF gallery = {} THEN NoResult
    ELSE IF student \in gallery /\ dist <= tolerance
         THEN [student_id |-> student, confidence |-> 100 - dist]
         ELSE NoResult

recognize_face(frame, gallery) ==
    IF frame.kind # "face" THEN NoResult
    ELSE face_match(frame.face, frame.dist, gallery, Tolerance)

\* FaceProcessor.process_video_frame for one face of the frame: the same
\* distance test; a face without a match is reported as Unknown with
\* confidence 0.0
process_video_frame(student, dist, gallery, tolerance) ==
    IF gallery # {} /\ student \in gallery /\ dist <= tolerance
    THEN [student_id |-> student, confidence |-> 100 - dist]
    ELSE [student_id |-> None, confidence |-> 0]

\* ------------------------------------------------------------ AttendanceLog
\* AttendanceLog.objects.filter(student=, session=).first()
ExistingLog(store, s, t) == {l \in store : l.student = s /\ l.session = t}

\* AttendanceLog.objects.create without the unique_together constraint
CreateUnconstrained(store, id, s, t, conf) ==
    [ok |-> TRUE,
     store |-> store \cup {[id |-> id, student |-> s, session |-> t,
                            confidence_score |-> conf,
                            method |-> "facial_recognition"]}]

\* AttendanceLog.objects.create: the INSERT is rejected with IntegrityError
\* when a row for (student, session) exists (unique_together)
AttendanceLogCreate(store, id, s, t, conf) ==
    IF ExistingLog(store, s, t) # {}
    THEN [ok |-> FALSE, store |-> store]
    ELSE [ok |-> TRUE,
          store |-> store \cup {[id |-> id, student |-> s, session |-> t,
                                 confidence_score |-> conf,
                                 method |-> "facial_recognition"]}]

\* ------------------------------------------- standalone pipeline (scripts/)
MaxCallers == 2       \* concurrent callers of the standalone entry points
Callers == 1..MaxCallers

\* a student of another course: has a stored encoding, no enrollment in the
\* course of the sessions
OtherStudents == {NumStudents + 1}
KnownStudents == Students \cup OtherStudents

\* AdvancedFaceRecognition defaults, in hundredths
confidence_threshold == 85
distance_threshold == 40
\* minimum overall quality of recognize_face, in hundredths
MinQuality == 50
\* minimum confidence of AttendanceSystem.mark_attendance (strict), in hundredths
MarkMinConfidence == 80

\* the largest distance whose confidence 1 - distance reaches the threshold
MatchDistance == 100 - confidence_threshold
AdvDistances == {MatchDistance - 10, MatchDistance, MatchDistance + 1,
                 distance_threshold, distance_threshold + 1}

Max(a, b) == IF a >= b THEN a ELSE b

\* AdvancedFaceRecognition._find_best_match for a query whose nearest gallery
\* entry is student at distance dist, under the configured thresholds:
\* strict distance test, clamped confidence, confidence test; None for an
\* empty gallery or a failed test
find_best_match_with(student, dist, gallery, dthr, cthr) ==
    IF gallery = {} \/ student \notin gallery THEN NoResult
    ELSE IF dist < dthr
         THEN LET confidence == Max(0, 100 - dist)
              IN IF confidence >= cthr
                 THEN [student_id |-> student, confidence |-> confidence]
                 ELSE NoResult
         ELSE NoResult

\* _find_best_match with the default thresholds
find_best_match(student, dist, gallery) ==
    find_best_match_with(student, dist, gallery,
                         distance_threshold, confidence_threshold)

\* a detected face of the standalone pipeline: whose face it is, the distance
\* to that student's gallery entry, the overall quality score and the run
\* of the liveness checks ("error": a check raised)
AdvFrames == [face : KnownStudents, dist : AdvDistances,
              quality : {MinQuality - 10, MinQuality + 20},
              live : {"live", "spoof", "error"}]

\* detect_liveness: False when a check fails; an exception inside the
\* checks is caught and True returned
detect_liveness(frame) == frame.live # "spoof"

\* AdvancedFaceRecognition.recognize_face for one detected face: quality
\* test, liveness test, then _find_best_match against the loaded gallery
adv_recognize_face_with(frame, gallery, dthr, cthr) ==
    IF frame.quality < MinQuality THEN NoResult
    ELSE IF ~detect_liveness(frame) THEN NoResult
    ELSE find_best_match_with(frame.face, frame.dist, gallery, dthr, cthr)

\* recognize_face with the default thresholds
adv_recognize_face(frame, gallery) ==
    adv_recognize_face_with(frame, gallery,
                            distance_threshold, confidence_threshold)

IdleCaller == [pc |-> "idle", entry |-> "none", session |-> None,
               student |-> None, confidence |-> 0, status |-> "none"]

\* ------------------------------------------------------- matcher calls
\* configured values of FaceProcessor.tolerance / distance_threshold and of
\* confidence_threshold (settings, constructor argument, load_model)
Tolerances == {distance_threshold, Tolerance, 2 * Tolerance}
MinConfidences == {confidence_threshold, 100 - distance_threshold}

\* distances of a query to its nearest gallery entry: at, just below and
\* just above each configured threshold, the grid step (one hundredth)
\* being the smallest step; and distances beyond 1.0
ProbeDistances == {None} \cup AdvDistances
                  \cup {t - 1 : t \in Tolerances} \cup Tolerances
                  \cup {t + 1 : t \in Tolerances}
                  \cup {100, Tolerance + 50}

NoProbe == [pc |-> "none", matcher |-> "none", face |-> None, dist |-> 0,
            tolerance |-> 0, min_confidence |-> 0, quality |-> 0,
            live |-> "live", student_id |-> None, confidence |-> 0]

\* a matcher call about to be made: the face, its distance to its own
\* gallery entry, its quality and liveness, and the configured thresholds
PendingProbes ==
    {[NoProbe EXCEPT !.pc = "pending", !.face = s, !.dist = d,
                     !.tolerance = t, !.min_confidence = c,
                     !.quality = q, !.live = l] :
        s \in Students, d \in ProbeDistances, t \in Tolerances,
        c \in MinConfidences, q \in {MinQuality - 10, MinQuality + 20},
        l \in {"live", "spoof", "error"}}

\* ------------------------------------------------------- websocket layer
MaxConns == 2         \* websocket connections opened in one behaviour
Conns == 1..MaxConns

\* a class session of another course, taught by another instructor
OtherSessions == {NumSessions + 1}
WsSessions == Sessions \cup OtherSessions

\* accounts: one staff user and the instructor of each course
Users == {"admin", "teacher1", "teacher2"}
is_staff(u) == u = "admin"
CourseInstructor(t) == IF t \in Sessions THEN "teacher1" ELSE "teacher2"

\* what a connection presents: no token, a key that matches no Token row,
\* or the key of a user's Token
Tokens == {"missing", "unknown"} \cup Users

\* TokenAuthMiddleware / get_user_from_token: the token's user, AnonymousUser
\* without a token or for an unknown key
get_user_from_token(token) == IF token \in Users THEN token ELSE "anonymous"

\* AttendanceConsumer.check_session_access with the staff / instructor test
\* left out
check_session_exists(t, user) == t \in WsSessions

\* AttendanceConsumer.check_session_access: the session exists and the user
\* is staff or the instructor of its course
check_session_access(t, user) ==
    t \in WsSessions /\ (is_staff(user) \/ CourseInstructor(t) = user)

\* one group name for the subscribers of all sessions
SharedSessionGroup(t) == [name |-> "session", id |-> None]

\* group names: f"session_{session_id}", "dashboard_updates",
\* "system_notifications"
SessionGroup(t) == [name |-> "session", id |-> t]
DashboardGroup == [name |-> "dashboard_updates", id |-> None]
SystemGroup == [name |-> "system_notifications", id |-> None]

\* the message handlers each consumer class defines
Handlers(consumer) ==
    IF consumer = "attendance"
    THEN {"attendance_event", "session_update", "system_notification"}
    ELSE IF consumer = "dashboard"
    THEN {"dashboard_update", "attendance_summary"}
    ELSE IF consumer = "system"
    THEN {"system_alert", "face_recognition_status", "batch_processing_update"}
    ELSE {}

\* close codes of a refused connect
CloseUnauthenticated == 4001
CloseNoAccess == 4004

IdleConn == [pc |-> "idle", consumer |-> "none", token |-> "missing",
             user |-> "anonymous", session |-> None, close_code |-> None]

\* ----------------------------------------------------- shared gallery
\* the students rows a gallery reload is given, in the order of the query
\* result: every list of distinct students
StudentLists ==
    {<<>>} \cup {<<a>> : a \in Students}
           \cup {l \in Students \X Students : l[1] # l[2]}

\* the three parallel lists of the engine, each entry named by the student
\* it belongs to
GalleryOf(list) == [encodings |-> list, names |-> list, ids |-> list]

IdleLoader == [pc |-> "idle", todo |-> <<>>]
IdleReader == [pc |-> "idle", face |-> None, idx |-> 0,
               student_id |-> None, name |-> None, exc |-> "none"]

\* ------------------------------------------------------ maintenance task
NoCleanup == [ran |-> FALSE, old_logs_count |-> 0]

\* ---------------------------------------------------- engine construction
\* pc "none": no AdvancedFaceRecognition yet; the model attributes are None
\* ("none") until a loader assigns them; raised: an exception left __init__
NoEngine == [pc |-> "none", face_detector |-> "none",
             face_recognizer |-> "none", anti_spoof_model |-> "none",
             raised |-> FALSE]

\* the statement of _initialize_models that raises ("none": none does)
PrimaryFailures == {"none", "face_detector", "face_recognizer",
                    "anti_spoof_model"}

\* the statement of _initialize_fallback_models that raises
FallbackFailures == {"none", "face_detector", "face_recognizer"}

\* the engine runs on the primary models, or on the fallback detector and
\* recognizer
EngineSound(e) ==
    \/ /\ e.face_detector = "dnn"
       /\ e.face_recognizer = "dnn"
       /\ e.anti_spoof_model = "dnn"
    \/ /\ e.face_detector = "cascade"
       /\ e.face_recognizer = "lbph"

\* -------------------------------------------------------------- enrollment
MaxPhotoTasks == 1    \* process_student_photo tasks in one behaviour
PhotoTasks == 1..MaxPhotoTasks

\* a Student row: name stands for the columns other requests edit, photo
\* for the stored photo (None: no photo) and face_encoding for the stored
\* embedding (None: null).  Names and photos are numbered; an embedding
\* carries the number of the photo it was extracted from
Names == {1, 2}
Photos == {1}

\* a student with a photo and the embedding extracted from it
EnrolledRow == [name |-> 1, photo |-> 1, face_encoding |-> 1]

\* the rows students have before a behaviour of the enrollment starts: no
\* photo yet, a photo not yet processed, or enrolled
StartRows == {[name |-> 1, photo |-> None, face_encoding |-> None],
              [name |-> 1, photo |-> 1, face_encoding |-> None],
              EnrolledRow}

IdlePhotoTask == [pc |-> "idle", student |-> None, row |-> EnrolledRow,
                  encoding |-> None, result |-> "none"]
IdleStudentOp == [pc |-> "idle", student |-> None, row |-> EnrolledRow]

\* what processor.extract_face_encoding(student.photo.path) comes to: an
\* encoding, None (no face, or an error caught inside), or an exception of
\* the task itself (student.photo.path)
ExtractOutcomes == {"encoding", "noface", "error"}

\* ------------------------------------------------------------------ state
VARIABLES
    session,     \* committed ClassSession rows: Sessions -> SessionRows
    logs,        \* committed AttendanceLog rows
    reqs,        \* recognition requests: view response, task position, result
    ops,         \* session operations between get_object() and save()
    published,   \* messages handed to the channel layer (group_send)
    attendance,      \* committed rows of the sqlite attendance table
    attendance_logs, \* rows of the Supabase attendance_logs table
    callers,         \* callers of the standalone recognition entry points
    probe,           \* one matcher call: its inputs and its result
    conns,           \* websocket connections and their consumers
    groups,          \* channel-layer group membership: (group, connection)
    inbox,           \* group messages waiting on a connection's channel
    delivered,       \* messages the consumers sent to their clients
    gallery,         \* known_encodings / known_names / known_ids of a shared engine
    loader,          \* a running _load_known_faces call on the shared engine
    reader,          \* a running _find_best_match call on the shared engine
    cleaned,         \* result of the last cleanup_old_attendance_data run
    engine,          \* an AdvancedFaceRecognition under construction
    student_rows,    \* committed Student rows
    photo_tasks,     \* process_student_photo tasks
    student_ops      \* other updates of Student rows between read and save

\* the state of the Django recognition pipeline
core == <<session, logs, reqs, ops, published>>

\* the state of a matcher call
matchvars == <<probe>>

\* the state of the websocket layer
rtvars == <<conns, groups, inbox, delivered>>

\* the state of the standalone stores and their callers
standalonevars == <<attendance, attendance_logs, callers>>

\* the state of a gallery shared by a reload and a match
galvars == <<gallery, loader, reader>>

\* the state of the Student rows and the enrollment tasks
enrollvars == <<student_rows, photo_tasks, student_ops>>

\* the state of the maintenance task, engine construction and enrollment
latevars == <<galvars, cleaned, engine, enrollvars>>

\* the state outside the Django recognition pipeline
ext == <<attendance, attendance_logs, callers, matchvars, rtvars, latevars>>

vars == <<session, logs, reqs, ops, published, ext>>

NoFrame == [kind |-> "none", face |-> None, dist |-> 0]

IdleReq == [pc |-> "idle", session |-> None, frame |-> NoFrame,
            view |-> "none", task_gate |-> "none", student |-> None,
            confidence |-> 0, result |-> "none", exc |-> "none", log_id |-> None]

IdleOp == [pc |-> "idle", sid |-> None, row |-> SessionDefault]

\* students of the session's course with an active enrollment and a stored
\* encoding (the queryset handed to load_known_faces), read from the Student
\* rows when the run builds its gallery
EnrolledStudents(t) ==
    {s \in Students : student_rows[s].face_encoding # None}

\* a consistent gallery, no reload or match running, nothing cleaned up, no
\* engine under construction, every student enrolled, no task running
InitLate ==
    /\ gallery = GalleryOf(<<>>)
    /\ loader = IdleLoader
    /\ reader = IdleReader
    /\ cleaned = NoCleanup
    /\ engine = NoEngine
    /\ student_rows = [s \in Students |-> EnrolledRow]
    /\ photo_tasks = [k \in PhotoTasks |-> IdlePhotoTask]
    /\ student_ops = IdleStudentOp

\* no websocket connection yet
InitRealtime ==
    /\ conns = [c \in Conns |-> IdleConn]
    /\ groups = {}
    /\ inbox = [c \in Conns |-> {}]
    /\ delivered = {}

Init ==
    /\ session = [t \in Sessions |-> SessionDefault]
    /\ logs = {}
    /\ reqs = [r \in Reqs |-> IdleReq]
    /\ ops = [o \in Ops |-> IdleOp]
    /\ published = {}
    /\ attendance = {}
    /\ attendance_logs = {}
    /\ callers = [c \in Callers |-> IdleCaller]
    /\ probe = NoProbe
    /\ InitRealtime
    /\ InitLate

\* --------------------------------------------------- recognize_attendance
\* POST recognize_attendance {session_id, image_data}: required fields, image
\* validation, session lookup (404 for an unknown id) and gate, then the task
\* is enqueued.  Sessions are never deleted here, so the task of an accepted
\* request always finds its session.
RecognizeAttendance(r, t, frame) ==
    /\ reqs[r].pc = "idle"
    /\ IF r = 1 THEN TRUE ELSE reqs[r - 1].pc # "idle"
    /\ LET resp == IF frame.kind = "missing" THEN "missing_fields"
                   ELSE IF ~validate_image_format(frame) THEN "invalid_image"
                   ELSE IF t \notin Sessions THEN "not_found"
                   ELSE ViewGate(session[t])
       IN reqs' = [reqs EXCEPT ![r] =
                     [@ EXCEPT !.pc = IF resp = "accepted" THEN "queued" ELSE "done",
                               !.session = t,
                               !.frame = frame,
                               !.view = resp]]
    /\ UNCHANGED <<session, logs, ops, published, ext>>

\* ----------------------------------------- process_attendance_recognition
Finish(r, result, exc) ==
    [reqs EXCEPT ![r] = [@ EXCEPT !.pc = "done", !.result = result, !.exc = exc]]

\* ClassSession.objects.get and the gate check
TaskGate(r) ==
    /\ reqs[r].pc = "queued"
    /\ LET row == session[reqs[r].session]
           seen == [reqs EXCEPT ![r] = [@ EXCEPT !.task_gate = SessionState(row)]]
       IN reqs' = IF TaskGateRejects(row)
                  THEN [seen EXCEPT ![r] = [@ EXCEPT !.pc = "done",
                                                     !.result = "not_active"]]
                  ELSE [seen EXCEPT ![r] = [@ EXCEPT !.pc = "gated"]]
    /\ UNCHANGED <<session, logs, ops, published, ext>>

\* gallery query, load_known_faces, image decoding and recognize_face
TaskRecognize(r) ==
    /\ reqs[r].pc = "gated"
    /\ LET res == recognize_face(reqs[r].frame, EnrolledStudents(reqs[r].session))
       IN reqs' = IF res.student_id = None
                  THEN Finish(r, "no_match", "none")
                  ELSE [reqs EXCEPT ![r] = [@ EXCEPT !.pc = "matched",
                                                     !.student = res.student_id,
                                                     !.confidence = res.confidence]]
    /\ UNCHANGED <<session, logs, ops, published, ext>>

\* Student.objects.get and the lookup of an existing AttendanceLog
TaskCheckExisting(r) ==
    /\ reqs[r].pc = "matched"
    /\ reqs' = IF ExistingLog(logs, reqs[r].student, reqs[r].session) # {}
               THEN Finish(r, "already_marked", "none")
               ELSE [reqs EXCEPT ![r] = [@ EXCEPT !.pc = "checked"]]
    /\ UNCHANGED <<session, logs, ops, published, ext>>

\* AttendanceLog.objects.create; an IntegrityError reaches the catch-all
\* handler, which returns the 'Recognition error' result
TaskCreate(r) ==
    /\ reqs[r].pc = "checked"
    /\ LET id == Cardinality(logs) + 1
           ins == AttendanceLogCreate(logs, id, reqs[r].student, reqs[r].session,
                                      reqs[r].confidence)
       IN /\ logs' = ins.store
          /\ reqs' = IF ins.ok
                     THEN [reqs EXCEPT ![r] = [@ EXCEPT !.pc = "created", !.log_id = id]]
                     ELSE Finish(r, "recognition_error", "IntegrityError")
    /\ UNCHANGED <<session, ops, published, ext>>

\* send_attendance_notification.delay(...): facial_recognition.utils defines
\* send_attendance_notification as a plain function, not a Celery task, so
\* the attribute lookup raises AttributeError; the catch-all handler turns it
\* into the 'Recognition error' result
DelayRaises == TRUE

TaskDispatch(r) ==
    /\ reqs[r].pc = "created"
    /\ reqs' = IF DelayRaises
               THEN Finish(r, "recognition_error", "AttributeError")
               ELSE Finish(r, "marked", "none")
    /\ UNCHANGED <<session, logs, ops, published, ext>>

\* ---------------------------------------------------- ClassSessionViewSet
\* Each operation loads the row (get_object), changes fields of the instance
\* in memory and writes every column back with save().
GetObject(o, t, row) ==
    /\ ops[o].pc = "idle"
    /\ IF o = 1 THEN TRUE ELSE ops[o - 1].pc # "idle"
    /\ ops' = [ops EXCEPT ![o] = [pc |-> "loaded", sid |-> t, row |-> row]]
    /\ UNCHANGED <<session, logs, reqs, published, ext>>

\* start_attendance: get_object(), attendance_started = True
StartAttendanceLoad(o, t) ==
    GetObject(o, t, [session[t] EXCEPT !.attendance_started = TRUE])

\* stop_attendance: get_object(), attendance_ended = True
StopAttendanceLoad(o, t) ==
    GetObject(o, t, [session[t] EXCEPT !.attendance_ended = TRUE])

\* update / partial_update: ClassSessionSerializer leaves attendance_started
\* and attendance_ended writable; data gives the submitted value of each
\* (or "keep" when the field is not in the request)
FieldValues == {"true", "false", "keep"}
Apply(old, v) == IF v = "keep" THEN old ELSE v = "true"

UpdateLoad(o, t, started, ended) ==
    GetObject(o, t,
              [attendance_started |-> Apply(session[t].attendance_started, started),
               attendance_ended |-> Apply(session[t].attendance_ended, ended)])

\* session.save() / serializer.save(): all columns of the instance are written
SessionSave(o) ==
    /\ ops[o].pc = "loaded"
    /\ session' = [session EXCEPT ![ops[o].sid] = ops[o].row]
    /\ ops' = [ops EXCEPT ![o] = IdleOp]
    /\ UNCHANGED <<logs, reqs, published, ext>>

\* ------------------------------------------------------------ notification
\* the record lookup of send_attendance_notification replaced by no lookup
LookupAny(store, id) == {[id |-> id, session |-> t] : t \in Sessions}

\* AttendanceLog.objects.select_related(...).get(id=attendance_log_id)
LookupLog(store, id) == {[id |-> l.id, session |-> l.session] : l \in {x \in store : x.id = id}}

\* facial_recognition.utils.send_attendance_notification(attendance_log_id):
\* loads the record (DoesNotExist is caught and logged), publishes the
\* attendance_event to the session group and the dashboard_update to the
\* dashboard group; each group_send that raises is caught and logged
SendAttendanceNotification(id, sessionSendOk, dashboardSendOk) ==
    /\ \E l \in LookupLog(logs, id) :
          published' = published
             \cup (IF sessionSendOk
                   THEN {[type |-> "attendance_event", log_id |-> l.id,
                          group |-> l.session]}
                   ELSE {})
             \cup (IF dashboardSendOk
                   THEN {[type |-> "dashboard_update", log_id |-> l.id,
                          group |-> None]}
                   ELSE {})
    /\ published' # published
    /\ UNCHANGED <<session, logs, reqs, ops, ext>>

\* ------------------------------------------------------------------- Next
Next ==
    \/ \E r \in Reqs, t \in SessionIds, f \in Frames : RecognizeAttendance(r, t, f)
    \/ \E r \in Reqs : TaskGate(r)
    \/ \E r \in Reqs : TaskRecognize(r)
    \/ \E r \in Reqs : TaskCheckExisting(r)
    \/ \E r \in Reqs : TaskCreate(r)
    \/ \E r \in Reqs : TaskDispatch(r)
    \/ \E o \in Ops, t \in Sessions : StartAttendanceLoad(o, t)
    \/ \E o \in Ops, t \in Sessions : StopAttendanceLoad(o, t)
    \/ \E o \in Ops, t \in Sessions, a \in FieldValues, b \in FieldValues :
          UpdateLoad(o, t, a, b)
    \/ \E o \in Ops : SessionSave(o)
    \/ \E id \in LogIds, a \in BOOLEAN, b \in BOOLEAN :
          SendAttendanceNotification(id, a, b)

Spec == Init /\ [][Next]_vars

TypeOK ==
    /\ session \in [Sessions -> SessionRows]
    /\ \A l \in logs : l.id \in LogIds /\ l.student \in Students /\ l.session \in Sessions
    /\ \A r \in Reqs : reqs[r].pc \in {"idle", "queued", "gated", "matched",
                                        "checked", "created", "done"}
    /\ \A o \in Ops : ops[o].pc \in {"idle", "loaded"}

\* Tasks run one after the other: a step of a task is taken only while no
\* other task is between its first and its last statement (a single Celery
\* worker process with concurrency 1).
NoOtherTaskRunning(r) ==
    \A q \in Reqs \ {r} : reqs[q].pc \in {"idle", "queued", "done"}

NextSeq ==
    \/ \E r \in Reqs, t \in SessionIds, f \in Frames : RecognizeAttendance(r, t, f)
    \/ \E r \in Reqs : NoOtherTaskRunning(r) /\ TaskGate(r)
    \/ \E r \in Reqs : NoOtherTaskRunning(r) /\ TaskRecognize(r)
    \/ \E r \in Reqs : NoOtherTaskRunning(r) /\ TaskCheckExisting(r)
    \/ \E r \in Reqs : NoOtherTaskRunning(r) /\ TaskCreate(r)
    \/ \E r \in Reqs : NoOtherTaskRunning(r) /\ TaskDispatch(r)
    \/ \E o \in Ops, t \in Sessions : StartAttendanceLoad(o, t)
    \/ \E o \in Ops, t \in Sessions : StopAttendanceLoad(o, t)
    \/ \E o \in Ops : SessionSave(o)

SpecSeq == Init /\ [][NextSeq]_vars

\* ------------------------------------------------------ maintenance task
\* the cleanup replaced by one that deletes the records it counted
cleanup_deletes_old(store, old) ==
    [store |-> store \ old, old_logs_count |-> Cardinality(old)]

\* cleanup_old_attendance_data(): old is the result of
\* AttendanceLog.objects.filter(timestamp__lt=cutoff_date); the records are
\* counted and logged, none is deleted
cleanup_old_attendance_data(store, old) ==
    [store |-> store, old_logs_count |-> Cardinality(old)]

\* a run of the periodic task; which records are older than the cutoff is
\* left open
CleanupOldAttendanceData ==
    \E old \in SUBSET logs :
        LET res == cleanup_old_attendance_data(logs, old)
        IN /\ logs' = res.store
           /\ cleaned' = [ran |-> TRUE, old_logs_count |-> res.old_logs_count]
           /\ UNCHANGED <<session, reqs, ops, published, standalonevars,
                          matchvars, rtvars, galvars, engine, enrollvars>>

\* the Django pipeline together with its periodic task
NextRecords ==
    \/ Next
    \/ CleanupOldAttendanceData

SpecRecords == Init /\ [][NextRecords]_vars

\* ------------------------------------------- standalone pipeline: actions
\* the class_sessions rows the standalone entry points are pointed at may be
\* in any state of the two gate columns
InitStandalone ==
    /\ session \in [Sessions -> SessionRows]
    /\ logs = {}
    /\ reqs = [r \in Reqs |-> IdleReq]
    /\ ops = [o \in Ops |-> IdleOp]
    /\ published = {}
    /\ attendance = {}
    /\ attendance_logs = {}
    /\ callers = [c \in Callers |-> IdleCaller]
    /\ probe = NoProbe
    /\ InitRealtime
    /\ InitLate

CallerDone(c, status) ==
    [callers EXCEPT ![c] = [@ EXCEPT !.pc = "done", !.status = status]]

\* the rows of a store for (student_id, session_id)
RowsFor(store, s, t) == {x \in store : x.student_id = s /\ x.session_id = t}

\* a caller's call: recognition of the frame against the gallery and the
\* confidence test of the entry point; minConf is the least confidence the
\* entry point lets through
StartCall(c, entry, t, frame, minConf) ==
    /\ callers[c].pc = "idle"
    /\ IF c = 1 THEN TRUE ELSE callers[c - 1].pc # "idle"
    /\ LET res == adv_recognize_face(frame, KnownStudents)
       IN callers' = [callers EXCEPT ![c] =
             [pc |-> IF res.student_id # None /\ res.confidence >= minConf
                     THEN "recognized" ELSE "done",
              entry |-> entry, session |-> t,
              student |-> res.student_id, confidence |-> res.confidence,
              status |-> "none"]]
    /\ UNCHANGED <<core, attendance, attendance_logs, matchvars, rtvars, latevars>>

\* AttendanceSystem.mark_attendance(image, session_id): recognize_face on the
\* trained gallery, then the loop over results with confidence > 0.8; the
\* session_id is used as a key only
MarkAttendance(c, t, frame) ==
    StartCall(c, "mark_attendance", t, frame, MarkMinConfidence + 1)

\* SELECT id FROM attendance WHERE student_id = ? AND session_id = ?
\* (sees committed rows only; the caller has written nothing yet)
MarkSelect(c) ==
    /\ callers[c].pc = "recognized"
    /\ callers[c].entry = "mark_attendance"
    /\ callers' = IF RowsFor(attendance, callers[c].student, callers[c].session) # {}
                  THEN CallerDone(c, "already_marked")
                  ELSE [callers EXCEPT ![c] = [@ EXCEPT !.pc = "selected"]]
    /\ UNCHANGED <<core, attendance, attendance_logs, matchvars, rtvars, latevars>>

\* another connection is between its INSERT and its commit (holds the
\* database write lock)
WriteLocked(c) == \E d \in Callers \ {c} : callers[d].pc = "inserted"

\* INSERT INTO attendance ...: starts the connection's transaction and takes
\* the write lock; the table has no UNIQUE constraint on the pair
MarkInsert(c) ==
    /\ callers[c].pc = "selected"
    /\ ~WriteLocked(c)
    /\ callers' = [callers EXCEPT ![c] = [@ EXCEPT !.pc = "inserted"]]
    /\ UNCHANGED <<core, attendance, attendance_logs, matchvars, rtvars, latevars>>

\* the INSERT waits for the write lock longer than the busy timeout:
\* OperationalError, caught by the handler, which returns []
MarkInsertLocked(c) ==
    /\ callers[c].pc = "selected"
    /\ WriteLocked(c)
    /\ callers' = CallerDone(c, "error")
    /\ UNCHANGED <<core, attendance, attendance_logs, matchvars, rtvars, latevars>>

\* conn.commit(): the inserted row becomes visible to the other connections
MarkCommit(c) ==
    /\ callers[c].pc = "inserted"
    /\ attendance' = attendance \cup
          {[id |-> Cardinality(attendance) + 1,
            student_id |-> callers[c].student,
            session_id |-> callers[c].session,
            confidence |-> callers[c].confidence]}
    /\ callers' = CallerDone(c, "marked")
    /\ UNCHANGED <<core, attendance_logs, matchvars, rtvars, latevars>>

\* FaceRecognitionAPI.recognize_attendance(session_id, image_data): the
\* class_sessions row is fetched (a missing row ends the call) and none of
\* its columns is read; the gallery is every students row with a
\* face_encoding; results with confidence >= 0.85 go on to the lookup
ApiRecognizeAttendance(c, t, frame) ==
    IF t \in Sessions
    THEN StartCall(c, "recognize_attendance", t, frame, confidence_threshold)
    ELSE /\ callers[c].pc = "idle"
         /\ IF c = 1 THEN TRUE ELSE callers[c - 1].pc # "idle"
         /\ callers' = [callers EXCEPT ![c] =
               [IdleCaller EXCEPT !.pc = "done", !.entry = "recognize_attendance",
                                  !.session = t, !.status = "not_found"]]
         /\ UNCHANGED <<core, attendance, attendance_logs, matchvars, rtvars, latevars>>

\* attendance_logs.select("id").eq(student_id).eq(session_id)
ApiSelectExisting(c) ==
    /\ callers[c].pc = "recognized"
    /\ callers[c].entry = "recognize_attendance"
    /\ callers' = IF RowsFor(attendance_logs, callers[c].student,
                             callers[c].session) # {}
                  THEN CallerDone(c, "already_marked")
                  ELSE [callers EXCEPT ![c] = [@ EXCEPT !.pc = "selected_api"]]
    /\ UNCHANGED <<core, attendance, attendance_logs, matchvars, rtvars, latevars>>

\* attendance_logs.insert(...): one autocommitted request.  The schema of
\* the Supabase table is not part of the repository: an insert for a pair
\* that already has a row is either stored or rejected, and a rejection
\* reaches the handler that returns the 'Recognition error' result
ApiInsert(c, accepted) ==
    /\ callers[c].pc = "selected_api"
    /\ accepted \/ RowsFor(attendance_logs, callers[c].student,
                           callers[c].session) # {}
    /\ attendance_logs' =
          IF accepted
          THEN attendance_logs \cup
                  {[id |-> Cardinality(attendance_logs) + 1,
                    student_id |-> callers[c].student,
                    session_id |-> callers[c].session,
                    confidence |-> callers[c].confidence]}
          ELSE attendance_logs
    /\ callers' = CallerDone(c, IF accepted THEN "marked" ELSE "error")
    /\ UNCHANGED <<core, attendance, matchvars, rtvars, latevars>>

NextStandalone ==
    \/ \E c \in Callers, t \in Sessions, f \in AdvFrames : MarkAttendance(c, t, f)
    \/ \E c \in Callers : MarkSelect(c)
    \/ \E c \in Callers : MarkInsert(c)
    \/ \E c \in Callers : MarkInsertLocked(c)
    \/ \E c \in Callers : MarkCommit(c)
    \/ \E c \in Callers, t \in SessionIds, f \in AdvFrames :
          ApiRecognizeAttendance(c, t, f)
    \/ \E c \in Callers : ApiSelectExisting(c)
    \/ \E c \in Callers, a \in BOOLEAN : ApiInsert(c, a)

SpecStandalone == InitStandalone /\ [][NextStandalone]_vars

\* ---------------------------------------------------- matcher calls: actions
InitMatch ==
    /\ session = [t \in Sessions |-> SessionDefault]
    /\ logs = {}
    /\ reqs = [r \in Reqs |-> IdleReq]
    /\ ops = [o \in Ops |-> IdleOp]
    /\ published = {}
    /\ attendance = {}
    /\ attendance_logs = {}
    /\ callers = [c \in Callers |-> IdleCaller]
    /\ probe \in PendingProbes
    /\ InitRealtime
    /\ InitLate

\* the pending call is made on the named matcher and returns res
ProbeReturn(matcher, res) ==
    /\ probe.pc = "pending"
    /\ probe' = [probe EXCEPT !.pc = "returned", !.matcher = matcher,
                              !.student_id = res.student_id,
                              !.confidence = res.confidence]
    /\ UNCHANGED <<core, attendance, attendance_logs, callers, rtvars, latevars>>

\* FaceProcessor.recognize_face on a gallery holding the face's student
ProbeRecognizeFace ==
    ProbeReturn("recognize_face",
                face_match(probe.face, probe.dist, Students, probe.tolerance))

\* FaceProcessor.process_video_frame
ProbeVideoFrame ==
    ProbeReturn("process_video_frame",
                process_video_frame(probe.face, probe.dist, Students,
                                    probe.tolerance))

\* AdvancedFaceRecognition._find_best_match
ProbeFindBestMatch ==
    ProbeReturn("find_best_match",
                find_best_match_with(probe.face, probe.dist, Students,
                                     probe.tolerance, probe.min_confidence))

\* AdvancedFaceRecognition.recognize_face
ProbeAdvRecognizeFace ==
    ProbeReturn("adv_recognize_face",
                adv_recognize_face_with(probe, Students, probe.tolerance,
                                        probe.min_confidence))

NextMatch ==
    \/ ProbeRecognizeFace
    \/ ProbeVideoFrame
    \/ ProbeFindBestMatch
    \/ ProbeAdvRecognizeFace

SpecMatch == InitMatch /\ [][NextMatch]_vars

\* ------------------------------------------------ websocket layer: actions
\* a connection arrives: TokenAuthMiddleware puts the token's user in the
\* scope, the routed consumer's connect() closes the connection with code
\* or, with code None, joins group and accepts
Connect(c, consumer, token, t, code, group) ==
    /\ conns[c].pc = "idle"
    /\ IF c = 1 THEN TRUE ELSE conns[c - 1].pc # "idle"
    /\ conns' = [conns EXCEPT ![c] =
                    [pc |-> IF code = None THEN "open" ELSE "closed",
                     consumer |-> consumer, token |-> token,
                     user |-> get_user_from_token(token),
                     session |-> t, close_code |-> code]]
    /\ groups' = IF code = None
                 THEN groups \cup {[group |-> group, conn |-> c]}
                 ELSE groups
    /\ UNCHANGED <<core, attendance, attendance_logs, callers, matchvars, latevars,
                   inbox, delivered>>

\* AttendanceConsumer.connect for ws/attendance/<session_id>/
AttendanceConnect(c, token, t) ==
    LET user == get_user_from_token(token)
    IN Connect(c, "attendance", token, t,
               IF user = "anonymous" THEN CloseUnauthenticated
               ELSE IF ~check_session_access(t, user) THEN CloseNoAccess
               ELSE None,
               SessionGroup(t))

\* DashboardConsumer.connect
DashboardConnect(c, token) ==
    Connect(c, "dashboard", token, None,
            IF get_user_from_token(token) = "anonymous"
            THEN CloseUnauthenticated ELSE None,
            DashboardGroup)

\* SystemConsumer.connect
SystemConnect(c, token) ==
    LET user == get_user_from_token(token)
    IN Connect(c, "system", token, None,
               IF user = "anonymous" \/ ~is_staff(user)
               THEN CloseUnauthenticated ELSE None,
               SystemGroup)

\* disconnect() of an accepted connection: group_discard; what is still on
\* the channel is never handled
Disconnect(c) ==
    /\ conns[c].pc = "open"
    /\ conns' = [conns EXCEPT ![c] = [@ EXCEPT !.pc = "closed"]]
    /\ groups' = {g \in groups : g.conn # c}
    /\ inbox' = [inbox EXCEPT ![c] = {}]
    /\ UNCHANGED <<core, attendance, attendance_logs, callers, matchvars, latevars,
                   delivered>>

\* channel_layer.group_send(group, {'type': type, ...}) for an event about
\* session t (None for events that are about no session): a copy goes to
\* the channel of every member of the group
GroupSend(type, t, group) ==
    /\ inbox' = [c \in Conns |->
                    IF [group |-> group, conn |-> c] \in groups
                    THEN inbox[c] \cup {[type |-> type, session |-> t]}
                    ELSE inbox[c]]
    /\ inbox' # inbox
    /\ UNCHANGED <<core, attendance, attendance_logs, callers, matchvars, latevars,
                   conns, groups, delivered>>

\* realtime.utils.send_attendance_notification(session_id, data)
SendNotification(t) == GroupSend("attendance_event", t, SessionGroup(t))

\* realtime.utils.send_session_update(session_id, data)
SendSessionUpdate(t) == GroupSend("session_update", t, SessionGroup(t))

\* realtime.utils.send_dashboard_update(data)
SendDashboardUpdate == GroupSend("dashboard_update", None, DashboardGroup)

\* realtime.utils.send_face_recognition_status(data)
SendFaceRecognitionStatus ==
    GroupSend("face_recognition_status", None, SystemGroup)

\* the consumer takes a message off its channel and its handler for the
\* message type sends it to the client
Deliver(c) ==
    /\ conns[c].pc = "open"
    /\ \E m \in inbox[c] :
          /\ m.type \in Handlers(conns[c].consumer)
          /\ inbox' = [inbox EXCEPT ![c] = @ \ {m}]
          /\ delivered' = delivered \cup
                {[conn |-> c, type |-> m.type, session |-> m.session]}
    /\ UNCHANGED <<core, attendance, attendance_logs, callers, matchvars, latevars,
                   conns, groups>>

NextRealtime ==
    \/ \E c \in Conns, k \in Tokens, t \in WsSessions \cup {None} :
          AttendanceConnect(c, k, t)
    \/ \E c \in Conns, k \in Tokens : DashboardConnect(c, k)
    \/ \E c \in Conns, k \in Tokens : SystemConnect(c, k)
    \/ \E c \in Conns : Disconnect(c)
    \/ \E t \in WsSessions : SendNotification(t)
    \/ \E t \in WsSessions : SendSessionUpdate(t)
    \/ SendDashboardUpdate
    \/ SendFaceRecognitionStatus
    \/ \E c \in Conns : Deliver(c)

SpecRealtime == Init /\ [][NextRealtime]_vars

\* ------------------------------------------------ shared gallery: actions
\* one FaceRecognitionAPI whose engine holds the gallery of an earlier,
\* completed load
InitGallery ==
    /\ session = [t \in Sessions |-> SessionDefault]
    /\ logs = {}
    /\ reqs = [r \in Reqs |-> IdleReq]
    /\ ops = [o \in Ops |-> IdleOp]
    /\ published = {}
    /\ attendance = {}
    /\ attendance_logs = {}
    /\ callers = [c \in Callers |-> IdleCaller]
    /\ probe = NoProbe
    /\ InitRealtime
    /\ gallery \in {GalleryOf(l) : l \in StudentLists}
    /\ loader = IdleLoader
    /\ reader = IdleReader
    /\ cleaned = NoCleanup
    /\ engine = NoEngine
    /\ student_rows = [s \in Students |-> EnrolledRow]
    /\ photo_tasks = [k \in PhotoTasks |-> IdlePhotoTask]
    /\ student_ops = IdleStudentOp

GalleryFrame == UNCHANGED <<core, standalonevars, matchvars, rtvars,
                            cleaned, engine, enrollvars>>

\* _load_known_faces(students_data), first statement: known_encodings is
\* rebound to an empty list
LoadKnownFaces ==
    \E list \in StudentLists :
        /\ loader.pc = "idle"
        /\ gallery' = [gallery EXCEPT !.encodings = <<>>]
        /\ loader' = [pc |-> "reset_names", todo |-> list]
        /\ UNCHANGED reader
        /\ GalleryFrame

\* known_names = []
LoadResetNames ==
    /\ loader.pc = "reset_names"
    /\ gallery' = [gallery EXCEPT !.names = <<>>]
    /\ loader' = [loader EXCEPT !.pc = "reset_ids"]
    /\ UNCHANGED reader
    /\ GalleryFrame

\* known_ids = [], then the loop is entered
LoadResetIds ==
    /\ loader.pc = "reset_ids"
    /\ gallery' = [gallery EXCEPT !.ids = <<>>]
    /\ loader' = [loader EXCEPT !.pc = "append_encoding"]
    /\ UNCHANGED reader
    /\ GalleryFrame

\* loop head: the next student's encoding is appended, or the call returns
LoadAppendEncoding ==
    /\ loader.pc = "append_encoding"
    /\ IF loader.todo = <<>>
       THEN /\ loader' = IdleLoader
            /\ UNCHANGED gallery
       ELSE /\ gallery' = [gallery EXCEPT !.encodings =
                               Append(@, Head(loader.todo))]
            /\ loader' = [loader EXCEPT !.pc = "append_name"]
    /\ UNCHANGED reader
    /\ GalleryFrame

\* known_names.append(student['name'])
LoadAppendName ==
    /\ loader.pc = "append_name"
    /\ gallery' = [gallery EXCEPT !.names = Append(@, Head(loader.todo))]
    /\ loader' = [loader EXCEPT !.pc = "append_id"]
    /\ UNCHANGED reader
    /\ GalleryFrame

\* known_ids.append(student['id'])
LoadAppendId ==
    /\ loader.pc = "append_id"
    /\ gallery' = [gallery EXCEPT !.ids = Append(@, Head(loader.todo))]
    /\ loader' = [pc |-> "append_encoding", todo |-> Tail(loader.todo)]
    /\ UNCHANGED reader
    /\ GalleryFrame

\* position of the first entry of list that is the encoding of face, 0 when
\* there is none: the index the scan ends with (one's own encoding is the
\* nearest and within the thresholds, no other is)
BestMatchIdx(list, face) ==
    IF \E i \in 1..Len(list) : list[i] = face
    THEN CHOOSE i \in 1..Len(list) :
             /\ list[i] = face
             /\ \A j \in 1..(i - 1) : list[j] # face
    ELSE 0

\* _find_best_match(encoding) on the shared engine, for the face of a
\* student: the emptiness test
FindBestMatch ==
    \E face \in Students :
        /\ reader.pc = "idle"
        /\ reader' = IF gallery.encodings = <<>>
                     THEN [IdleReader EXCEPT !.pc = "done", !.face = face]
                     ELSE [IdleReader EXCEPT !.pc = "scan", !.face = face]
        /\ UNCHANGED <<gallery, loader>>
        /\ GalleryFrame

\* the loop over self.known_encodings and the threshold tests
FindScan ==
    /\ reader.pc = "scan"
    /\ LET i == BestMatchIdx(gallery.encodings, reader.face)
       IN reader' = IF i = 0
                    THEN [reader EXCEPT !.pc = "done"]
                    ELSE [reader EXCEPT !.pc = "read_id", !.idx = i]
    /\ UNCHANGED <<gallery, loader>>
    /\ GalleryFrame

\* self.known_ids[best_match_idx]; an IndexError ends in the handler, which
\* returns None
FindReadId ==
    /\ reader.pc = "read_id"
    /\ reader' = IF reader.idx > Len(gallery.ids)
                 THEN [reader EXCEPT !.pc = "done", !.exc = "IndexError"]
                 ELSE [reader EXCEPT !.pc = "read_name",
                                     !.student_id = gallery.ids[reader.idx]]
    /\ UNCHANGED <<gallery, loader>>
    /\ GalleryFrame

\* self.known_names[best_match_idx]
FindReadName ==
    /\ reader.pc = "read_name"
    /\ reader' = IF reader.idx > Len(gallery.names)
                 THEN [reader EXCEPT !.pc = "done", !.exc = "IndexError",
                                     !.student_id = None]
                 ELSE [reader EXCEPT !.pc = "done",
                                     !.name = gallery.names[reader.idx]]
    /\ UNCHANGED <<gallery, loader>>
    /\ GalleryFrame

\* the caller takes the result
FindReturn ==
    /\ reader.pc = "done"
    /\ reader' = IdleReader
    /\ UNCHANGED <<gallery, loader>>
    /\ GalleryFrame

NextGallery ==
    \/ LoadKnownFaces
    \/ LoadResetNames
    \/ LoadResetIds
    \/ LoadAppendEncoding
    \/ LoadAppendName
    \/ LoadAppendId
    \/ FindBestMatch
    \/ FindScan
    \/ FindReadId
    \/ FindReadName
    \/ FindReturn

SpecGallery == InitGallery /\ [][NextGallery]_vars

\* ------------------------------------------- engine construction: actions
EngineFrame == UNCHANGED <<core, standalonevars, matchvars, rtvars,
                           galvars, cleaned, enrollvars>>

\* AdvancedFaceRecognition.__init__ up to the call of _initialize_models
EngineInit ==
    /\ engine.pc = "none"
    /\ engine' = [NoEngine EXCEPT !.pc = "initialize_models"]
    /\ EngineFrame

\* _initialize_models: the three models are loaded in order; the statement
\* that raises leaves its attribute and the later ones unassigned and the
\* handler calls _initialize_fallback_models
EngineInitializeModels ==
    \E fail \in PrimaryFailures :
        /\ engine.pc = "initialize_models"
        /\ engine' =
             [engine EXCEPT
                !.pc = IF fail = "none" THEN "constructed" ELSE "fallback",
                !.face_detector =
                    IF fail = "face_detector" THEN @ ELSE "dnn",
                !.face_recognizer =
                    IF fail \in {"face_detector", "face_recognizer"}
                    THEN @ ELSE "dnn",
                !.anti_spoof_model = IF fail = "none" THEN "dnn" ELSE @]
        /\ EngineFrame

\* _initialize_fallback_models: CascadeClassifier, then the LBPH recognizer;
\* an exception is logged by the handler and nothing is raised
EngineInitializeFallback ==
    \E fail \in FallbackFailures :
        /\ engine.pc = "fallback"
        /\ engine' =
             [engine EXCEPT
                !.pc = "constructed",
                !.face_detector =
                    IF fail = "face_detector" THEN @ ELSE "cascade",
                !.face_recognizer = IF fail = "none" THEN "lbph" ELSE @]
        /\ EngineFrame

\* recognize_face reaches _find_best_match when detect_faces_advanced finds
\* a face; with face_detector None the detection raises inside its handler
\* and returns no face.  extract_face_encoding takes its histogram branch
\* for every recognizer without setInput, None included
EngineDetects == engine.pc = "constructed" /\ engine.face_detector # "none"

\* the life of one FaceRecognitionAPI: the engine is constructed, then
\* galleries are loaded into it and faces are matched
NextEngine ==
    \/ EngineInit
    \/ EngineInitializeModels
    \/ EngineInitializeFallback
    \/ engine.pc = "constructed" /\ LoadKnownFaces
    \/ LoadResetNames
    \/ LoadResetIds
    \/ LoadAppendEncoding
    \/ LoadAppendName
    \/ LoadAppendId
    \/ EngineDetects /\ FindBestMatch
    \/ FindScan
    \/ FindReadId
    \/ FindReadName
    \/ FindReturn

SpecEngine == InitGallery /\ [][NextEngine]_vars

\* ------------------------------------------------------ enrollment: actions
\* a session open for attendance, students at any stage of their enrollment
InitEnroll ==
    /\ session = [t \in Sessions |->
                     [attendance_started |-> TRUE, attendance_ended |-> FALSE]]
    /\ logs = {}
    /\ reqs = [r \in Reqs |-> IdleReq]
    /\ ops = [o \in Ops |-> IdleOp]
    /\ published = {}
    /\ attendance = {}
    /\ attendance_logs = {}
    /\ callers = [c \in Callers |-> IdleCaller]
    /\ probe = NoProbe
    /\ InitRealtime
    /\ gallery = GalleryOf(<<>>)
    /\ loader = IdleLoader
    /\ reader = IdleReader
    /\ cleaned = NoCleanup
    /\ engine = NoEngine
    /\ student_rows \in [Students -> StartRows]
    /\ photo_tasks = [k \in PhotoTasks |-> IdlePhotoTask]
    /\ student_ops = IdleStudentOp

EnrollFrame == UNCHANGED <<core, standalonevars, matchvars, rtvars, galvars,
                           cleaned, engine>>

\* process_student_photo(student_id) up to the assignment of
\* student.face_encoding: Student.objects.get (DoesNotExist for an unknown
\* id), the photo test and the extraction.  Every failure returns its
\* result without a write
PhotoLoad(k, s, outcome) ==
    /\ photo_tasks[k].pc = "idle"
    /\ IF k = 1 THEN TRUE ELSE photo_tasks[k - 1].pc # "idle"
    /\ LET fail(result) == [IdlePhotoTask EXCEPT !.pc = "done",
                                                 !.student = s,
                                                 !.result = result]
       IN photo_tasks' = [photo_tasks EXCEPT ![k] =
            IF s \notin Students THEN fail("not_found")
            ELSE IF student_rows[s].photo = None THEN fail("no_photo")
            ELSE IF outcome = "noface" THEN fail("no_face")
            ELSE IF outcome = "error" THEN fail("processing_error")
            ELSE [pc |-> "extracted", student |-> s, row |-> student_rows[s],
                  encoding |-> student_rows[s].photo, result |-> "none"]]
    /\ UNCHANGED <<student_rows, student_ops>>
    /\ EnrollFrame

\* student.face_encoding = face_encoding; student.save(): every column of
\* the instance read by the task is written
PhotoSave(k) ==
    /\ photo_tasks[k].pc = "extracted"
    /\ student_rows' = [student_rows EXCEPT ![photo_tasks[k].student] =
           [photo_tasks[k].row EXCEPT
               !.face_encoding = photo_tasks[k].encoding]]
    /\ photo_tasks' = [photo_tasks EXCEPT ![k] =
           [@ EXCEPT !.pc = "done", !.result = "success"]]
    /\ UNCHANGED student_ops
    /\ EnrollFrame

\* StudentViewSet update / partial_update: get_object(), then the submitted
\* name or photo is set on the instance (face_encoding is not a serializer
\* field)
StudentUpdateLoad(s, field, value) ==
    /\ student_ops.pc = "idle"
    /\ student_ops' =
          [pc |-> "loaded", student |-> s,
           row |-> IF field = "name"
                   THEN [student_rows[s] EXCEPT !.name = value]
                   ELSE [student_rows[s] EXCEPT !.photo = value]]
    /\ UNCHANGED <<student_rows, photo_tasks>>
    /\ EnrollFrame

\* serializer.save(): instance.save() writes every column, face_encoding
\* as read included
StudentUpdateSave ==
    /\ student_ops.pc = "loaded"
    /\ student_rows' = [student_rows EXCEPT ![student_ops.student] =
                            student_ops.row]
    /\ student_ops' = IdleStudentOp
    /\ UNCHANGED photo_tasks
    /\ EnrollFrame

\* enrollment, updates of Student rows and one recognition request
NextEnroll ==
    \/ \E k \in PhotoTasks, s \in KnownStudents, out \in ExtractOutcomes :
          PhotoLoad(k, s, out)
    \/ \E k \in PhotoTasks : PhotoSave(k)
    \/ \E s \in Students, v \in Names : StudentUpdateLoad(s, "name", v)
    \/ \E s \in Students, v \in Photos : StudentUpdateLoad(s, "photo", v)
    \/ StudentUpdateSave
    \/ \E t \in SessionIds, f \in Frames : RecognizeAttendance(1, t, f)
    \/ TaskGate(1)
    \/ TaskRecognize(1)
    \/ TaskCheckExisting(1)
    \/ TaskCreate(1)
    \/ TaskDispatch(1)

SpecEnroll == InitEnroll /\ [][NextEnroll]_vars

\* ------------------------------------------- concurrent start and stop
\* start_attendance and stop_attendance requests in flight at the same time
StartStopOps == 1..(MaxOps + 2)

InitStartStop ==
    /\ session = [t \in Sessions |-> SessionDefault]
    /\ logs = {}
    /\ reqs = [r \in Reqs |-> IdleReq]
    /\ ops = [o \in StartStopOps |-> IdleOp]
    /\ published = {}
    /\ attendance = {}
    /\ attendance_logs = {}
    /\ callers = [c \in Callers |-> IdleCaller]
    /\ probe = NoProbe
    /\ InitRealtime
    /\ InitLate

NextStartStop ==
    \/ \E o \in StartStopOps, t \in Sessions : StartAttendanceLoad(o, t)
    \/ \E o \in StartStopOps, t \in Sessions : StopAttendanceLoad(o, t)
    \/ \E o \in StartStopOps : SessionSave(o)

SpecStartStop == InitStartStop /\ [][NextStartStop]_vars

\* ================================================================ claims

\* the finished tasks that passed the gate of session t and recognized student s
Recognized(s, t) ==
    {r \in Reqs : /\ reqs[r].pc = "done"
                  /\ reqs[r].session = t
                  /\ reqs[r].task_gate = "Active"
                  /\ reqs[r].student = s}

\* C1: in every reachable state the AttendanceLog store holds at most one
\* record per (student, session) pair, whatever the interleaving of the
\* recognition tasks.
C1_AtMostOnePerPair ==
    \A a \in logs, b \in logs :
        (a.student = b.student /\ a.session = b.session) => a = b

\* C1 witness: two tasks for the same pair both passed the lookup of an
\* existing record; one inserted the record, the insert of the other was
\* rejected by the constraint.
C1_RaceHappened ==
    \E r1 \in Reqs, r2 \in Reqs :
        /\ r1 # r2
        /\ reqs[r1].session = reqs[r2].session
        /\ reqs[r1].student = reqs[r2].student
        /\ reqs[r1].log_id # None
        /\ reqs[r2].exc = "IntegrityError"
        /\ Cardinality(ExistingLog(logs, reqs[r1].student, reqs[r1].session)) = 1

\* C2 (as claimed): when several tasks for the same Active session that all
\* recognize the same student have finished, exactly one of them returned
\* the marked outcome, every other one the already-marked outcome, and none
\* an error outcome.
C2_OneMarkedRestAlreadyMarked ==
    \A s \in Students, t \in Sessions :
        Cardinality(Recognized(s, t)) >= 2 =>
            /\ Cardinality({r \in Recognized(s, t) : reqs[r].result = "marked"}) = 1
            /\ \A r \in Recognized(s, t) :
                  reqs[r].result \in {"marked", "already_marked"}

\* C3 (as claimed): two runs of the task, one after the other, on an Active
\* session with frames that both match student s leave exactly one record
\* for the pair; the first run reports the attendance as recorded, the
\* second reports s as already marked and creates nothing.
C3_SecondRunAlreadyMarked ==
    \A s \in Students, t \in Sessions :
        Cardinality(Recognized(s, t)) = 2 =>
            /\ Cardinality(ExistingLog(logs, s, t)) = 1
            /\ \E r1 \in Recognized(s, t), r2 \in Recognized(s, t) :
                  /\ reqs[r1].result = "marked"
                  /\ reqs[r1].log_id # None
                  /\ reqs[r2].result = "already_marked"
                  /\ reqs[r2].log_id = None

\* C4: a request that the view rejects at its gate enqueues no task and
\* creates no record, a task that reads a Pending or Closed session at its
\* gate check ends there without a record, and every record in the store
\* was written by a task that read an Active session at its gate.
C4_GateBlocksWrites ==
    /\ \A r \in Reqs :
          /\ reqs[r].view \in {"not_started", "ended"} =>
                /\ reqs[r].pc = "done"
                /\ reqs[r].task_gate = "none"
                /\ reqs[r].log_id = None
          /\ reqs[r].task_gate \in {"Pending", "Closed"} =>
                /\ reqs[r].pc = "done"
                /\ reqs[r].result = "not_active"
                /\ reqs[r].log_id = None
    /\ \A l \in logs :
          \E r \in Reqs : /\ reqs[r].log_id = l.id
                          /\ reqs[r].view = "accepted"
                          /\ reqs[r].task_gate = "Active"

\* C4 witness: one request was rejected by the view on a Closed session and
\* the task of another, accepted earlier, read the Closed session at its gate.
C4_BothGatesRejected ==
    \E r1 \in Reqs, r2 \in Reqs :
        /\ reqs[r1].view = "ended"
        /\ reqs[r2].view = "accepted"
        /\ reqs[r2].task_gate = "Closed"
        /\ reqs[r2].frame.kind = "face"
        /\ reqs[r2].frame.dist <= Tolerance

\* C5 (as claimed): the gate is the first check of a request that carries
\* image data: on a Pending session the response is SessionNotStarted and
\* on a Closed session SessionEnded, whatever the image data is.
C5_GateFirst ==
    [][\A r \in Reqs :
          (reqs[r].pc = "idle" /\ reqs'[r].pc # "idle"
                               /\ reqs'[r].session \in Sessions
                               /\ reqs'[r].frame.kind # "missing") =>
             LET row == session[reqs'[r].session]
             IN /\ IsPending(row) => reqs'[r].view = "not_started"
                /\ (row.attendance_started /\ row.attendance_ended) =>
                      reqs'[r].view = "ended"]_vars

\* C6 (as claimed): once attendance_ended is committed as true, no operation
\* on the session leads to a state in which the gate lets a request proceed.
C6_ClosedNeverReopens ==
    [][\A t \in Sessions :
          IsClosed(session[t]) =>
             /\ ViewGate(session'[t]) # "accepted"
             /\ TaskGateRejects(session'[t])]_vars

\* C7 (as claimed): no reachable state has attendance_ended true while
\* attendance_started is false.
C7_NoSkippedState ==
    \A t \in Sessions :
        session[t].attendance_ended => session[t].attendance_started

\* C8 (as claimed): a request accepted by the view while the session was
\* Active is never turned into a gate rejection by its task.
C8_AcceptedRunsToCompletion ==
    \A r \in Reqs :
        reqs[r].view = "accepted" => reqs[r].result # "not_active"

\* C9 (as claimed): once the task has created the record, it returns the
\* marked outcome and the record stays in the store, also when dispatching
\* the notification raises.
C9_NotificationFailureNotSurfaced ==
    \A r \in Reqs :
        (reqs[r].pc = "done" /\ reqs[r].log_id # None) =>
            /\ reqs[r].result = "marked"
            /\ \E l \in logs : l.id = reqs[r].log_id

\* C10: every attendance_event and dashboard_update that is published is
\* for a record that was already committed in the store when the message
\* was sent, the attendance_event goes to the group of that record's
\* session, and the record was created by a recognition request.
C10_NotifyAfterCommit ==
    [][\A m \in published' \ published :
          /\ \E l \in logs : /\ l.id = m.log_id
                              /\ m.type = "attendance_event" => m.group = l.session
          /\ \E r \in Reqs : reqs[r].log_id = m.log_id]_vars

\* C10 witness: both messages of a created record have been published.
C10_Published ==
    \E l \in logs :
        /\ [type |-> "attendance_event", log_id |-> l.id, group |-> l.session]
              \in published
        /\ [type |-> "dashboard_update", log_id |-> l.id, group |-> None]
              \in published

\* ------------------------------------------------------------------ C11
\* a step of some process_attendance_recognition task
TaskStep ==
    \E r \in Reqs : \/ TaskGate(r)
                    \/ TaskRecognize(r)
                    \/ TaskCheckExisting(r)
                    \/ TaskCreate(r)
                    \/ TaskDispatch(r)

\* The Celery worker keeps running: a task that can take its next statement
\* eventually takes it.  Nothing in the code schedules a call of
\* send_attendance_notification other than the task's dispatch, so no
\* fairness is stated for the direct call.
SpecLive == Spec /\ WF_vars(TaskStep)

\* both messages of the fan-out for record id are on the channel layer
FanOutDone(id) ==
    /\ \E m \in published : m.type = "attendance_event" /\ m.log_id = id
    /\ \E m \in published : m.type = "dashboard_update" /\ m.log_id = id

\* C11 (as claimed): every record created by the task is eventually followed
\* by its fan-out, an attendance_event to the session group and a
\* dashboard_update to the dashboard group.
C11_CreationLeadsToFanOut ==
    \A id \in LogIds : (\E l \in logs : l.id = id) ~> FanOutDone(id)

\* ------------------------------------------------------------------ C12
\* C12 (as claimed): the sqlite attendance table never holds two rows for
\* the same (student_id, session_id), also when two callers of
\* mark_attendance recognize the same student for the same session.
C12_StandaloneAtMostOnePerPair ==
    \A a \in attendance, b \in attendance :
        (a.student_id = b.student_id /\ a.session_id = b.session_id) => a = b

\* ------------------------------------------------------------------ C13
\* C13 (as claimed): FaceRecognitionAPI.recognize_attendance and
\* AttendanceSystem.mark_attendance write an attendance row only while the
\* addressed session is Active, none for a Pending or Closed session.
C13_StandaloneGate ==
    [][/\ \A x \in attendance' \ attendance : IsActive(session[x.session_id])
       /\ \A x \in attendance_logs' \ attendance_logs :
             IsActive(session[x.session_id])]_vars

\* ------------------------------------------------------------------ C14
\* C14 (as claimed): a record is written only for a match that passes both
\* the distance gate and the confidence gate, so every AttendanceLog record
\* created by recognition carries a confidence of at least 0.85 (and with
\* it a distance within 0.4).
C14_RecordsPassBothGates ==
    \A l \in logs :
        /\ l.confidence_score >= confidence_threshold
        /\ 100 - l.confidence_score <= distance_threshold

\* ------------------------------------------------------------------ C15
\* C15 (as claimed): every matcher accepts a query whose nearest gallery
\* entry lies at exactly the configured distance threshold (the confidence
\* gate permitting) and rejects one a single step beyond it.
C15_ThresholdInclusive ==
    probe.pc = "returned" =>
        /\ (probe.dist = probe.tolerance
              /\ 100 - probe.dist >= probe.min_confidence) =>
                 probe.student_id = probe.face
        /\ probe.dist = probe.tolerance + 1 => probe.student_id = None

\* ------------------------------------------------------------------ C16
\* C16 (as claimed): whatever the distance and the configured threshold,
\* the confidence a matcher reports lies in [0, 1].
C16_ConfidenceInUnitInterval ==
    probe.pc = "returned" => (probe.confidence >= 0 /\ probe.confidence <= 100)

\* ------------------------------------------------------------------ C17
\* C17 (as claimed): every attendance row written by a recognition request
\* for session T belongs to a student with an active enrollment in T's
\* course; a student who is not enrolled in that course is never marked.
C17_GalleryScopedToCourse ==
    \A x \in attendance_logs : x.student_id \in EnrolledStudents(x.session_id)

\* ------------------------------------------------------------------ C18
\* C18: an attendance_event or session_update published for session A is
\* delivered only to a connection that is, at the time of the delivery, a
\* member of A's session group through an accepted AttendanceConsumer
\* connection for A: never to a subscriber of another session, to a
\* dashboard or system subscriber, or after disconnect.
C18_SessionIsolation ==
    [][\A d \in delivered' \ delivered :
          d.type \in {"attendance_event", "session_update"} =>
             /\ conns[d.conn].pc = "open"
             /\ conns[d.conn].consumer = "attendance"
             /\ conns[d.conn].session = d.session
             /\ [group |-> SessionGroup(d.session), conn |-> d.conn] \in groups]_vars

\* C18 witness: an event for one session reached its subscriber while a
\* subscriber of another session was connected and got nothing.
C18_DeliveredToOwnSessionOnly ==
    \E c1 \in Conns, c2 \in Conns :
        /\ [conn |-> c1, type |-> "attendance_event",
            session |-> conns[c1].session] \in delivered
        /\ conns[c2].pc = "open"
        /\ conns[c2].consumer = "attendance"
        /\ conns[c2].session # conns[c1].session
        /\ inbox[c2] = {}
        /\ \A d \in delivered : d.conn # c2

\* ------------------------------------------------------------------ C19
\* C19: no connection without a known token is ever a member of a group; a
\* member of a session group is staff or the instructor of that existing
\* session's course; a member of the system_notifications group is staff.
C19_AuthorizedBeforeJoin ==
    /\ \A c \in Conns :
          (conns[c].pc # "idle" /\ conns[c].token \notin Users) =>
             /\ conns[c].pc = "closed"
             /\ \A g \in groups : g.conn # c
    /\ \A g \in groups :
          /\ conns[g.conn].token \in Users
          /\ g.group.name = "session" =>
                /\ g.group.id \in WsSessions
                /\ \/ is_staff(conns[g.conn].token)
                   \/ CourseInstructor(g.group.id) = conns[g.conn].token
          /\ g.group = SystemGroup => is_staff(conns[g.conn].token)

\* C19 witness: an instructor was refused the session of another course
\* while a connection of the course's own instructor is in the group.
C19_RefusedAndAdmitted ==
    \E c1 \in Conns, c2 \in Conns :
        /\ conns[c1].consumer = "attendance"
        /\ conns[c1].close_code = CloseNoAccess
        /\ conns[c1].token \in Users
        /\ conns[c2].token = CourseInstructor(conns[c1].session)
        /\ [group |-> SessionGroup(conns[c1].session), conn |-> c2] \in groups

\* ------------------------------------------------------------------ C20
\* C20 (as claimed): in each recognition path that leads to an attendance
\* write (FaceProcessor.recognize_face for the task,
\* AdvancedFaceRecognition.recognize_face for the standalone entry points),
\* a face whose overall quality is below the minimum or that fails the
\* liveness check is excluded before matching and gets no identity.
C20_LowQualityOrSpoofExcluded ==
    (probe.pc = "returned"
        /\ probe.matcher \in {"recognize_face", "adv_recognize_face"}
        /\ (probe.quality < MinQuality \/ probe.live = "spoof")) =>
       probe.student_id = None

\* ------------------------------------------------------------------ C21
\* C21 (as claimed): a face for which detect_liveness could not complete
\* its checks (one of them raised) is treated as not live, so
\* AdvancedFaceRecognition.recognize_face reports no identity for it.
C21_LivenessFailsClosed ==
    (probe.pc = "returned" /\ probe.matcher = "adv_recognize_face"
                           /\ probe.live = "error") =>
       probe.student_id = None


\* ------------------------------------------------------------------ C22
\* C22: a match that runs while the gallery is reloaded sees one complete
\* snapshot: the id and the name it returns are those of the student whose
\* encoding it matched
C22_ReaderSeesOneSnapshot ==
    (reader.pc = "done" /\ reader.student_id # None)
        => (reader.student_id = reader.face /\ reader.name = reader.face)

C24_UsedEngineIsSound ==
    reader.pc # "idle" => EngineSound(engine)

\* ------------------------------------------------------------------ C25
\* C25: a request whose image_data does not decode to an image is answered
\* with the invalid-image error; no task is enqueued for it and no
\* attendance record results from it
C25_InvalidImageRejected ==
    \A r \in Reqs :
        reqs[r].frame.kind = "bad"
            => /\ reqs[r].view = "invalid_image"
               /\ reqs[r].pc = "done"
               /\ reqs[r].task_gate = "none"
               /\ reqs[r].result = "none"
               /\ reqs[r].log_id = None

\* C25 witness: an undecodable image was refused for a session that is
\* open for attendance
C25_BadImageOnOpenSession ==
    \E r \in Reqs :
        /\ reqs[r].frame.kind = "bad"
        /\ reqs[r].view = "invalid_image"
        /\ reqs[r].session \in Sessions
        /\ ViewGate(session[reqs[r].session]) = "accepted"

\* ------------------------------------------------------------------ C26
\* C26: a run whose gallery is empty, or holds no entry within the
\* tolerance of the face, ends with the no-recognized-student result and no
\* exception, creates no attendance record and publishes nothing
C26_NoMatchIsNotAnError ==
    [][\A r \in Reqs :
          (/\ reqs[r].pc = "gated"
           /\ reqs'[r].pc # "gated"
           /\ reqs[r].frame.kind = "face"
           /\ \/ reqs[r].frame.face \notin EnrolledStudents(reqs[r].session)
              \/ reqs[r].frame.dist > Tolerance)
              => /\ reqs'[r].pc = "done"
                 /\ reqs'[r].result = "no_match"
                 /\ reqs'[r].exc = "none"
                 /\ reqs'[r].log_id = None
                 /\ logs' = logs
                 /\ published' = published]_vars

\* C26 witness: a run on a near face ended without a match because no
\* student has a stored encoding
C26_EmptyGalleryNoMatch ==
    \E r \in Reqs :
        /\ reqs[r].result = "no_match"
        /\ reqs[r].frame.kind = "face"
        /\ reqs[r].frame.dist <= Tolerance
        /\ EnrolledStudents(reqs[r].session) = {}
        /\ logs = {}

\* ------------------------------------------------------------------ C27
\* C27: the stored embedding of a student changes only when a
\* process_student_photo run for that student succeeds: once enrolled, the
\* new embedding is what every later run loads, and a failed enrollment
\* leaves the stored embedding as it was
C27_EmbeddingChangesOnlyByEnrollment ==
    [][\A s \in Students :
          student_rows'[s].face_encoding # student_rows[s].face_encoding
              => \E k \in PhotoTasks :
                    /\ photo_tasks[k].student = s
                    /\ photo_tasks[k].pc = "extracted"
                    /\ photo_tasks'[k].result = "success"
                    /\ student_rows'[s].face_encoding =
                           photo_tasks[k].encoding]_vars

\* ------------------------------------------------------------------ C28
\* C28: under start_attendance and stop_attendance requests only, a stored
\* attendance_ended that is true stays true: no later save writes it back
\* to false
C28_StopIsNeverUndone ==
    [][\A t \in Sessions :
          session[t].attendance_ended => session'[t].attendance_ended]_vars

\* ------------------------------------------------------------------ C29
\* C29: a finished run reports success exactly when it created a record: a
\* run that ended with any other result has created none
C29_FailureMeansNoRecord ==
    \A r \in Reqs :
        (reqs[r].pc = "done" /\ reqs[r].result # "marked")
            => reqs[r].log_id = None

\* ------------------------------------------------------------------ C30
\* C30: the save of process_student_photo changes no column of the Student
\* row other than face_encoding
C30_PhotoTaskWritesOnlyEncoding ==
    [][\A k \in PhotoTasks :
          (photo_tasks[k].pc = "extracted" /\ photo_tasks'[k].pc = "done")
              => \A s \in Students :
                    /\ student_rows'[s].name = student_rows[s].name
                    /\ student_rows'[s].photo = student_rows[s].photo]_vars
====
